---- MODULE Spec2Model ----
(***************************************************************************)
(* Model of the Hudson Sciclops plate-crane driver (sciclops_driver.py):   *)
(* the labware inventory kept by class SCICLOPS, the compound operations   *)
(* that read and update it, and the commands each operation writes to the  *)
(* device.                                                                 *)
(*                                                                         *)
(* A compound operation is a straight-line script of send_command calls    *)
(* interleaved with inventory reads and writes.  An operator models one    *)
(* method: it maps the inventory before the call to an outcome             *)
(*   [lab  |-> the inventory when the method exits,                        *)
(*    cmds |-> the commands written to the device, in order,               *)
(*    log  |-> the guard messages printed,                                 *)
(*    exc  |-> "none" for a normal return (every method returns None),     *)
(*             or the name of the exception that left the method].         *)
(***************************************************************************)
EXTENDS Integers, Sequences, FiniteSets, TLC

\* ---------------------------------------------------------------- bounds
\* Towers modelled, out of the five of load_labware: tower1 (one pcr_plate)
\* and the first NumTowers-1 of the empty 96_well towers.
NumTowers == 2
\* Occupancy counts are unbounded Python ints.  Operations are taken only
\* while the plates on record over the towers and the exchange (the positive
\* counts) total at most MaxPlates and the plates owed (the negative counts)
\* total at most MaxDebt.  The device starts with one plate on record.
MaxPlates == 2
MaxDebt == 1
\* Where stacks are filled up (SpecStack), every count of a tower or of the
\* exchange is kept within -MaxStack..MaxStack: a tower of pcr_plate is full
\* at 25 plates, a tower of 96_well at 23.
MaxStack == 25
\* success_count is an unbounded Python int.  The device answers with
\* "0000 Success" only while success_count is below MaxSuccess.
MaxSuccess == 2

\* ------------------------------------------------------------- constants
AllTowers == <<"tower1", "tower2", "tower3", "tower4", "tower5">>
Towers == {AllTowers[i] : i \in 1..NumTowers}
LidNests == {"lidnest1", "lidnest2"}
Slots == Towers \cup LidNests \cup {"exchange"}

\* What a Python call yields when the code falls off the end of a function.
None == "None"

\* load_plate_info: the grab offsets of each plate type (heights are not
\* used by any compound operation).
plate_info ==
  [t \in {"96_well", "pcr_plate"} |->
     IF t = "96_well"
     THEN [grab_exchange |-> -30, grab_lid_exchange |-> -21, grab_tower |-> -18,
           grab_lid_tower |-> -13, grab_lid_nest |-> -12]
     ELSE [grab_exchange |-> -28, grab_lid_exchange |-> 0, grab_tower |-> -17,
           grab_lid_tower |-> 0, grab_lid_nest |-> 0]]

\* load_labware: the inventory after construction.  Lid nests carry no
\* has_lid key; neutral and trash carry a position only and are not slots.
load_labware ==
  [s \in Slots |->
     IF s = "tower1"
     THEN [type |-> "pcr_plate", howmany |-> 1, size |-> <<10, 11, 12>>, has_lid |-> TRUE]
     ELSE IF s \in Towers
     THEN [type |-> "96_well", howmany |-> 0, size |-> <<10, 11, 12>>, has_lid |-> TRUE]
     ELSE IF s \in LidNests
     THEN [type |-> "96_well", howmany |-> 0, size |-> <<10, 11, 12>>]
     ELSE [type |-> "96_well", howmany |-> 0, size |-> <<10, 11, 2>>, has_lid |-> FALSE]]

\* ------------------------------------------------------------- primitives
\* One command line written by send_command: its verb, its text argument
\* (an axis, or the location whose R/Z/P/Y the line carries) and its number.
Cmd(verb, a, n) == [verb |-> verb, a |-> a, n |-> n]

open == <<Cmd("OPEN", "", 0)>>
close == <<Cmd("CLOSE", "", 0)>>
set_speed(speed) == <<Cmd("SETSPEED", "", speed)>>
jog(axis, distance) == <<Cmd("JOG", axis, distance)>>

\* move: loadpoint, MOVE, deletepoint, all for the position of loc.
move(loc) == <<Cmd("LOADPOINT", loc, 0), Cmd("MOVE", loc, 0), Cmd("DELETEPOINT", loc, 0)>>

\* check_complete_loop: STATUS polls until the device answers ready; here the
\* device is ready at the first poll.
check_complete_loop == <<Cmd("STATUS", "", 0)>>

\* The opening of get_plate, plate_to_stack, plate_to_trash and
\* lidnest_to_trash: retract, lift, go to neutral.
to_neutral_start ==
  open \o set_speed(10) \o jog("Y", -1000) \o jog("Z", 1000) \o set_speed(12)
  \o move("neutral")

\* A method's outcome.
Outcome(lab, cmds, log, exc) == [lab |-> lab, cmds |-> cmds, log |-> log, exc |-> exc]

\* ---------------------------------------------------------- guard queries
\* A lookup that reads lidnest1 only.
check_for_lid_in_first_nest(lab) ==
  IF lab["lidnest1"].howmany >= 1 /\ lab["lidnest1"].type = lab["exchange"].type
  THEN "lidnest1"
  ELSE None

\* A lookup that does not compare plate types.
check_for_lid_of_any_type(lab) ==
  IF lab["lidnest1"].howmany >= 1 THEN "lidnest1"
  ELSE IF lab["lidnest2"].howmany >= 1 THEN "lidnest2"
  ELSE None

check_for_lid(lab) ==
  IF lab["lidnest1"].howmany >= 1 /\ lab["lidnest1"].type = lab["exchange"].type
  THEN "lidnest1"
  ELSE IF lab["lidnest2"].howmany >= 1 /\ lab["lidnest2"].type = lab["exchange"].type
  THEN "lidnest2"
  ELSE None

check_for_lid_log(lab) ==
  IF check_for_lid(lab) = None THEN <<"NO MATCHING LID IN LID NESTS">> ELSE <<>>

\* The first nest returned whether it is empty or not.
check_for_first_nest(lab) == "lidnest1"

\* A lookup that takes a nest holding one lid for an available one.
check_for_nest_below_two(lab) ==
  IF lab["lidnest1"].howmany <= 1 THEN "lidnest1"
  ELSE IF lab["lidnest2"].howmany <= 1 THEN "lidnest2"
  ELSE None

\* A lookup that reads lidnest2 before lidnest1.
check_for_empty_nest_last_first(lab) ==
  IF lab["lidnest2"].howmany = 0 THEN "lidnest2"
  ELSE IF lab["lidnest1"].howmany = 0 THEN "lidnest1"
  ELSE None

check_for_empty_nest(lab) ==
  IF lab["lidnest1"].howmany = 0 THEN "lidnest1"
  ELSE IF lab["lidnest2"].howmany = 0 THEN "lidnest2"
  ELSE None

check_for_empty_nest_log(lab) ==
  IF check_for_empty_nest(lab) = None THEN <<"NO AVAILABLE LID NESTS">> ELSE <<>>

\* load_plate_info: the height of each plate type, in 1/10000 mm.
plate_height ==
  [t \in {"96_well", "pcr_plate"} |-> IF t = "96_well" THEN 162562 ELSE 152762]

\* A capacity test by plate count alone, whatever the plate type.
check_stack_by_count(lab, tower) == lab[tower].howmany < 23

\* check_stack: TRUE when the stack in tower leaves room for another plate
\* (lengths in 1/10000 mm).
check_stack(lab, tower) ==
  LET tower_z_height == -500000
      tower_z_bottom == -4218625
      plate_type == lab[tower].type
      num_stack == lab[tower].howmany
      total_height == plate_height[plate_type] * num_stack
      remaining == total_height + tower_z_bottom
  IN remaining < tower_z_height

\* ------------------------------------------------------- lid choreographies
\* remove_lid: the part sent before the has_lid guard is read.
remove_lid_approach ==
  set_speed(100) \o open \o move("exchange") \o check_complete_loop

\* remove_lid: grip the lid on the exchange plate and lift it.
remove_lid_grab(plate_type) ==
  jog("Z", -380) \o set_speed(7)
  \o jog("Z", plate_info[plate_type].grab_lid_exchange) \o close
  \o set_speed(100) \o jog("Z", 1000) \o check_complete_loop

remove_lid_to_trash ==
  move("trash") \o check_complete_loop
  \o jog("Z", -400) \o open \o jog("Z", 1000)
  \o move("neutral") \o check_complete_loop

remove_lid_to_nest(lid_nest) ==
  move(lid_nest) \o check_complete_loop
  \o jog("Z", -400) \o open \o jog("Z", 1000) \o check_complete_loop
  \o move("neutral") \o check_complete_loop

remove_lid(lab, trash) ==
  LET plate_type == lab["exchange"].type
      lid_nest == check_for_empty_nest(lab)
  IN IF ~lab["exchange"].has_lid
     THEN Outcome(lab, remove_lid_approach, <<"NO LID ON PLATE IN EXCHANGE">>, "none")
     ELSE IF trash
     THEN Outcome([lab EXCEPT !["exchange"].has_lid = FALSE],
                  remove_lid_approach \o remove_lid_grab(plate_type) \o remove_lid_to_trash,
                  <<>>, "none")
     ELSE IF lid_nest = None
     \* self.labware[None] raises KeyError once the lid is already lifted
     THEN Outcome(lab, remove_lid_approach \o remove_lid_grab(plate_type),
                  check_for_empty_nest_log(lab), "KeyError")
     ELSE Outcome([lab EXCEPT ![lid_nest].howmany = @ + 1,
                              ![lid_nest].type = lab["exchange"].type,
                              !["exchange"].has_lid = FALSE],
                  remove_lid_approach \o remove_lid_grab(plate_type)
                    \o remove_lid_to_nest(lid_nest),
                  <<>>, "none")

\* replace_lid: fetch a lid from lid_nest and put it on the exchange plate.
replace_lid_motion(lid_nest, plate_type) ==
  move(lid_nest) \o check_complete_loop
  \o close \o jog("Z", -380) \o set_speed(7) \o jog("Z", -1000) \o jog("Z", 10)
  \o open \o jog("Z", plate_info[plate_type].grab_lid_nest) \o close
  \o set_speed(100) \o jog("Z", 1000) \o check_complete_loop
  \o move("exchange") \o check_complete_loop
  \o jog("Z", -400) \o open \o jog("Z", 1000) \o check_complete_loop
  \o move("neutral") \o check_complete_loop

replace_lid(lab) ==
  LET head == set_speed(100) \o open
      lid_nest == check_for_lid(lab)
      plate_type == lab["exchange"].type
  IN IF lab["exchange"].has_lid
     THEN Outcome(lab, head,
                  check_for_lid_log(lab) \o <<"PLATE IN EXCHANGE ALREADY HAS LID">>, "none")
     ELSE IF lid_nest = None
     \* self.labware[None] raises KeyError while the arguments of move are built
     THEN Outcome(lab, head, check_for_lid_log(lab), "KeyError")
     ELSE Outcome([lab EXCEPT ![lid_nest].howmany = @ - 1,
                              !["exchange"].has_lid = TRUE],
                  head \o replace_lid_motion(lid_nest, plate_type), <<>>, "none")

\* ----------------------------------------------------- plate choreographies
\* get_plate: everything sent before the inventory is first written
\* (lines 688-743): to neutral, above the tower, grab, above the exchange,
\* release, lift.
get_plate_fetch(location, plate_type) ==
  to_neutral_start \o check_complete_loop
  \o set_speed(100) \o move(location) \o check_complete_loop
  \o close \o set_speed(15) \o jog("Z", -1000) \o jog("Z", 10) \o open
  \o jog("Z", plate_info[plate_type].grab_tower) \o close
  \o set_speed(100) \o jog("Z", 1000)
  \o move("exchange")
  \o jog("Z", -380) \o set_speed(5) \o jog("Z", -30) \o open
  \o set_speed(100) \o jog("Z", 1000)

\* get_plate with line 768 decrementing the exchange instead of the tower.
get_plate_write_wrong_slot(lab, location, k) ==
  CASE k = 1 -> [lab EXCEPT !["exchange"].howmany = @ + 1]
    [] k = 2 -> [lab EXCEPT !["exchange"].type = lab[location].type]
    [] k = 3 -> [lab EXCEPT !["exchange"].size = lab[location].size]
    [] k = 4 -> [lab EXCEPT !["exchange"].has_lid = lab[location].has_lid]
    [] k = 5 -> [lab EXCEPT !["exchange"].has_lid = TRUE]
    [] k = 6 -> [lab EXCEPT !["exchange"].howmany = @ - 1]

\* get_plate, the inventory writes in program order: lines 746, 747, 748,
\* 749 (the exchange takes the plate and the tower's type, size and lid
\* flag), 755 (without lid removal the exchange plate is recorded as lidded)
\* and 768 (the tower gives the plate up).
get_plate_write(lab, location, k) ==
  CASE k = 1 -> [lab EXCEPT !["exchange"].howmany = @ + 1]
    [] k = 2 -> [lab EXCEPT !["exchange"].type = lab[location].type]
    [] k = 3 -> [lab EXCEPT !["exchange"].size = lab[location].size]
    [] k = 4 -> [lab EXCEPT !["exchange"].has_lid = lab[location].has_lid]
    [] k = 5 -> [lab EXCEPT !["exchange"].has_lid = TRUE]
    [] k = 6 -> [lab EXCEPT ![location].howmany = @ - 1]

get_plate_arrive(lab, location) ==
  get_plate_write(get_plate_write(get_plate_write(get_plate_write(
    lab, location, 1), location, 2), location, 3), location, 4)

get_plate_leave(lab, location) == get_plate_write(lab, location, 6)

\* get_plate without lid removal as the list of its steps: each
\* send_command call and each inventory write is one step.
Send(c) == [kind |-> "send", cmd |-> c, k |-> 0]
Write(k) == [kind |-> "write", cmd |-> Cmd("", "", 0), k |-> k]

get_plate_program(location, plate_type) ==
  LET fetch == get_plate_fetch(location, plate_type)
      back == move("neutral")
  IN [i \in 1..Len(fetch) |-> Send(fetch[i])]
     \o <<Write(1), Write(2), Write(3), Write(4), Write(5)>>
     \o [i \in 1..Len(back) |-> Send(back[i])]
     \o <<Write(6)>>

\* The inventory after steps from..Len(prog) of prog, run without interruption.
RECURSIVE run_writes(_, _, _, _)
run_writes(prog, from, lab, location) ==
  IF from > Len(prog) THEN lab
  ELSE run_writes(prog, from + 1,
                  IF prog[from].kind = "write"
                  THEN get_plate_write(lab, location, prog[from].k) ELSE lab,
                  location)

\* The commands of prog, in order.
sent_by(prog) ==
  LET idx == {i \in 1..Len(prog) : prog[i].kind = "send"}
      nth[n \in 0..Len(prog)] ==
        IF n = 0 THEN <<>>
        ELSE IF n \in idx THEN Append(nth[n - 1], prog[n].cmd) ELSE nth[n - 1]
  IN nth[Len(prog)]

get_plate(lab, location, with_remove_lid, trash) ==
  LET plate_type == lab[location].type
      fetch == get_plate_fetch(location, plate_type)
      lab1 == get_plate_arrive(lab, location)
      r == remove_lid(lab1, trash)
  IN IF with_remove_lid
     THEN IF r.exc # "none"
          THEN Outcome(r.lab, fetch \o r.cmds, r.log, r.exc)
          ELSE Outcome(get_plate_leave(r.lab, location),
                       fetch \o r.cmds \o move("neutral"), r.log, "none")
     ELSE Outcome(run_writes(get_plate_program(location, plate_type), 1, lab, location),
                  sent_by(get_plate_program(location, plate_type)), <<>>, "none")

\* sciclops_interface.py, the driver the action server runs.  move_neutral
\* is its move to the configured neutral position.
move_neutral == move("neutral")

\* get_plate(source, target) of sciclops_interface.py: the plate type is the
\* constant "96_well"; line 558 is the bare name self.move_neutral, which
\* calls nothing, so no command is sent between SETSPEED 12 and the first
\* poll; the last statement calls move_neutral().  The inventory is kept by
\* the resource client, not in labware.
\* Its steps in program order: each send_command, and each call of the
\* resource client (pop of a resource into the local plate, push of plate
\* onto a resource; gripper_id is the resource "gripper").
Pop(resource) == [kind |-> "pop", cmd |-> Cmd("", resource, 0), k |-> 0]
Push(resource) == [kind |-> "push", cmd |-> Cmd("", resource, 0), k |-> 0]
Sends(cs) == [i \in 1..Len(cs) |-> Send(cs[i])]

\* The same steps with the plate put on record in the gripper before the
\* gripper closes on it.
interface_get_plate_program_early_record(source, target) ==
  LET plate_type == "96_well"
  IN Sends(open \o set_speed(10) \o jog("Y", -1000) \o jog("Z", 1000) \o set_speed(12)
           \o check_complete_loop
           \o set_speed(100) \o move(source) \o check_complete_loop
           \o close \o set_speed(15) \o jog("Z", -1000) \o jog("Z", 10) \o open
           \o jog("Z", plate_info[plate_type].grab_tower))
     \o <<Pop(source), Push("gripper")>>
     \o Sends(close \o set_speed(100) \o jog("Z", 1000)
              \o move(target)
              \o jog("Z", -380) \o set_speed(5) \o jog("Z", -30) \o open)
     \o <<Pop("gripper"), Push(target)>>
     \o Sends(set_speed(100) \o jog("Z", 1000)
              \o move_neutral)

interface_get_plate_program(source, target) ==
  LET plate_type == "96_well"
  IN Sends(open \o set_speed(10) \o jog("Y", -1000) \o jog("Z", 1000) \o set_speed(12)
           \o check_complete_loop
           \o set_speed(100) \o move(source) \o check_complete_loop
           \o close \o set_speed(15) \o jog("Z", -1000) \o jog("Z", 10) \o open
           \o jog("Z", plate_info[plate_type].grab_tower) \o close)
     \o <<Pop(source), Push("gripper")>>
     \o Sends(set_speed(100) \o jog("Z", 1000)
              \o move(target)
              \o jog("Z", -380) \o set_speed(5) \o jog("Z", -30) \o open)
     \o <<Pop("gripper"), Push(target)>>
     \o Sends(set_speed(100) \o jog("Z", 1000)
              \o move_neutral)

interface_get_plate(lab, source, target) ==
  Outcome(lab, sent_by(interface_get_plate_program(source, target)), <<>>, "none")

plate_to_stack_motion(tower, plate_type) ==
  open \o move("exchange") \o check_complete_loop
  \o set_speed(100) \o jog("Z", -380)
  \o jog("Z", plate_info[plate_type].grab_exchange) \o close
  \o set_speed(100) \o jog("Z", 1000) \o check_complete_loop
  \o move(tower) \o check_complete_loop
  \o set_speed(10) \o jog("Z", -1000) \o open
  \o set_speed(100) \o jog("Z", 1000) \o check_complete_loop
  \o move("neutral") \o check_complete_loop

plate_to_stack(lab, tower, add_lid) ==
  LET head == to_neutral_start \o check_complete_loop
      plate_type == lab["exchange"].type
      r == IF add_lid
           THEN LET q == replace_lid(lab)
                IN Outcome(q.lab, q.cmds, check_for_lid_log(lab) \o q.log, q.exc)
           ELSE Outcome(lab, <<>>, <<>>, "none")
  IN IF r.exc # "none"
     THEN Outcome(r.lab, head \o r.cmds, r.log, r.exc)
     ELSE Outcome([r.lab EXCEPT !["exchange"].howmany = @ - 1,
                                ![tower].howmany = @ + 1],
                  head \o r.cmds \o plate_to_stack_motion(tower, plate_type),
                  r.log, "none")

plate_to_trash_approach ==
  set_speed(100) \o open \o move("exchange") \o check_complete_loop
  \o jog("Z", -380) \o set_speed(7)

plate_to_trash_discard(grab_height) ==
  jog("Z", grab_height) \o close \o set_speed(100) \o jog("Z", 1000)
  \o check_complete_loop
  \o move("trash") \o check_complete_loop
  \o jog("Z", -1000) \o open \o jog("Z", 1000) \o check_complete_loop
  \o move("neutral") \o check_complete_loop

plate_to_trash(lab, add_lid) ==
  LET head == to_neutral_start \o check_complete_loop
      r == IF add_lid THEN replace_lid(lab) ELSE Outcome(lab, <<>>, <<>>, "none")
      info == plate_info[r.lab["exchange"].type]
  IN IF lab["exchange"].howmany >= 1
     THEN IF r.exc # "none"
          THEN Outcome(r.lab, head \o r.cmds, r.log, r.exc)
          \* plate_info has no key "grab_plate_exchange"
          ELSE IF "grab_plate_exchange" \notin DOMAIN info
          THEN Outcome(r.lab, head \o r.cmds \o plate_to_trash_approach, r.log, "KeyError")
          ELSE Outcome([r.lab EXCEPT !["exchange"].howmany = @ - 1],
                       head \o r.cmds \o plate_to_trash_approach
                         \o plate_to_trash_discard(info["grab_plate_exchange"]),
                       r.log, "none")
     ELSE Outcome(lab, head, <<"NO PLATE IN EXCHANGE">>, "none")

lidnest_to_trash_motion(lidnest, lid_type) ==
  set_speed(100) \o close \o move(lidnest) \o check_complete_loop
  \o jog("Z", -380) \o set_speed(7) \o jog("Z", -1000) \o jog("Z", 10) \o open
  \o jog("Z", plate_info[lid_type].grab_lid_nest) \o close
  \o set_speed(100) \o jog("Z", 1000) \o check_complete_loop
  \o move("trash") \o check_complete_loop
  \o jog("Z", -1000) \o open \o jog("Z", 1000) \o check_complete_loop
  \o move("neutral") \o check_complete_loop

\* The lid taken off the record without reading the nest's count.
lidnest_to_trash_unguarded(lab, lidnest) ==
  Outcome([lab EXCEPT ![lidnest].howmany = @ - 1],
          to_neutral_start \o check_complete_loop
            \o lidnest_to_trash_motion(lidnest, lab[lidnest].type),
          <<>>, "none")

lidnest_to_trash(lab, lidnest) ==
  LET head == to_neutral_start \o check_complete_loop
  IN IF lab[lidnest].howmany >= 1
     THEN Outcome([lab EXCEPT ![lidnest].howmany = @ - 1],
                  head \o lidnest_to_trash_motion(lidnest, lab[lidnest].type),
                  <<>>, "none")
     ELSE Outcome(lab, head, <<"NO LID IN NEST">>, "none")


\* -------------------------------------------------------------- transport
\* Text on the wire is a sequence of pieces: the body of a command line, a
\* status line "<code> <word>" of the device, a line of coordinates, the
\* "\r\n" that ends a line, and the "Write: " and "Read: " marks that
\* send_command puts into its response buffer.  Two texts are equal when
\* their pieces are.
Piece(kind, code, word, args) ==
  [kind |-> kind, code |-> code, word |-> word, args |-> args]

CRLF == Piece("crlf", "", "", <<>>)
WriteMark == Piece("mark", "", "Write: ", <<>>)
ReadMark == Piece("mark", "", "Read: ", <<>>)

\* "%s" of a coordinate and float() of its text.  A coordinate is a
\* non-negative number of 1/10000; its text has a whole part and up to four
\* decimals.
NumText(v) == [whole |-> v \div 10000, frac |-> v % 10000]
float(t) == t.whole * 10000 + t.frac

\* The text of v shows four digits in a row when it has four decimals.
FourDigits(t) == t.frac % 10 # 0

\* The command lines of get_status, get_position, loadpoint, move and
\* deletepoint.
CommandLine(word, args) == <<Piece("cmd", "", word, args), CRLF>>
StatusCommand == CommandLine("STATUS", <<>>)
GetposCommand == CommandLine("GETPOS", <<>>)
LoadpointCommand(R, Z, P, Y) ==
  CommandLine("LOADPOINT", <<<<"R", NumText(R)>>, <<"Z", NumText(Z)>>, <<"P", NumText(P)>>,
                             <<"Y", NumText(Y)>>, <<"R", NumText(R)>>>>)
MoveCommand(R) == CommandLine("MOVE", <<<<"R", NumText(R)>>>>)
DeletepointCommand(R) == CommandLine("DELETEPOINT", <<<<"R", NumText(R)>>>>)

\* limp(limp_bool): the command it hands to send_command, "LIMP %s" of
\* limp_string.  The text has no "\r\n".
limp(limp_bool) ==
  LET limp_string == IF limp_bool THEN "FALSE" ELSE "TRUE"
  IN <<Piece("cmd", "", IF limp_string = "TRUE" THEN "LIMP TRUE" ELSE "LIMP FALSE",
             <<>>)>>

\* driver.move(R, Z, P, Y): the three commands it sends.
move_commands(R, Z, P, Y) ==
  <<LoadpointCommand(R, Z, P, Y), MoveCommand(R), DeletepointCommand(R)>>

\* load_labware: the position of tower1, in 1/10000 (Z 23.5188, R 133.5,
\* Y 171.9895, P 8.6648).  It is the one target moves are called with.
Targets == {"tower1"}
labware_pos ==
  [l \in Targets |-> [Z |-> 235188, R |-> 1335000, Y |-> 1719895, P |-> 86648]]

\* SciclopsNode.move(target): the driver's move(R, Z, P, Y) called with the
\* target's Z, R, Y and P, in that order.
node_move_commands(location) ==
  move_commands(location.Z, location.R, location.Y, location.P)

\* The lines the device answers with.
Frame(code, word) == <<Piece("frame", code, word, <<>>), CRLF>>
PosLine(pos) ==
  <<Piece("pos", "", "", <<<<"Z", NumText(pos.Z)>>, <<"R", NumText(pos.R)>>,
                           <<"Y", NumText(pos.Y)>>, <<"P", NumText(pos.P)>>>>), CRLF>>
Frames == {Frame("0000", "Success"), Frame("0000", "Ready"), Frame("0011", "Fault")}

\* send_command: the condition that ends the read loop ("while msg !=
\* command", and the break on a failed read).  The first form below ends the
\* loop at whatever is read.
read_loop_ends_after_any_read(msg, command, failed) == failed \/ msg # <<>>

read_loop_ends(msg, command, failed) == failed \/ msg = command

\* The count taken over what the last read returned instead of over the
\* whole buffer.
count_success_in_last_read(response_buffer) ==
  LET marks == {i \in 1..Len(response_buffer) : response_buffer[i] = ReadMark}
      from == IF marks = {} THEN Len(response_buffer) + 1
              ELSE CHOOSE m \in marks : \A n \in marks : n <= m
  IN Cardinality({i \in from..Len(response_buffer) :
                    /\ response_buffer[i].kind = "frame"
                    /\ response_buffer[i].code = "0000"
                    /\ response_buffer[i].word = "Success"})

\* response_buffer.count("0000 Success")
count_success(response_buffer) ==
  Cardinality({i \in 1..Len(response_buffer) :
                 /\ response_buffer[i].kind = "frame"
                 /\ response_buffer[i].code = "0000"
                 /\ response_buffer[i].word = "Success"})

\* get_error: re.search of four digits followed, on the same line, by text
\* that ends in a word character.  The match is the first status line, or the
\* first coordinate with four decimals that is not the last of its line;
\* group 5 is what follows the four digits.  Characters 5 to 8 of group 5
\* are "0000" for no text of the model, so ERROR is written at every match.
error_match(piece) ==
  IF piece.kind = "frame" THEN <<" ", piece.word>>
  ELSE LET hits == {j \in 1..(Len(piece.args) - 1) : FourDigits(piece.args[j][2])}
       IN IF hits = {} THEN <<>>
          ELSE LET j == CHOOSE h \in hits : \A g \in hits : h <= g
               IN <<",">> \o SubSeq(piece.args, j + 1, Len(piece.args))

get_error(response_buffer, ERROR) ==
  LET hits == {i \in 1..Len(response_buffer) : error_match(response_buffer[i]) # <<>>}
  IN IF hits = {} THEN ERROR
     ELSE <<"ERROR: ">> \o error_match(response_buffer[CHOOSE h \in hits : \A g \in hits : h <= g])

\* get_status: re.search of "0000 (.*\w)"; the status is the text after the
\* code of the first status line with code 0000, and is left alone when there
\* is none.  The first form below drops a status it is told a second time.
find_status_once(out_msg, status) ==
  LET hits == {i \in 1..Len(out_msg) : out_msg[i].kind = "frame" /\ out_msg[i].code = "0000"}
      word == out_msg[CHOOSE h \in hits : \A g \in hits : h <= g].word
  IN IF hits = {} THEN status
     ELSE IF status = word THEN None ELSE word

\* The status cleared when the response holds no status line.
find_status_or_none(out_msg, status) ==
  LET hits == {i \in 1..Len(out_msg) : out_msg[i].kind = "frame" /\ out_msg[i].code = "0000"}
  IN IF hits = {} THEN None
     ELSE out_msg[CHOOSE h \in hits : \A g \in hits : h <= g].word

find_status(out_msg, status) ==
  LET hits == {i \in 1..Len(out_msg) : out_msg[i].kind = "frame" /\ out_msg[i].code = "0000"}
  IN IF hits = {} THEN status
     ELSE out_msg[CHOOSE h \in hits : \A g \in hits : h <= g].word

\* check_complete: the status and the movement state it leaves, and what it
\* returns.  The first form below reports ready whatever the response.
check_complete_always_ready(out_msg, d) ==
  [driver |-> [d EXCEPT !.status = find_status(out_msg, @), !.movement_state = "READY"],
   ret |-> "True"]

check_complete(out_msg, d) ==
  IF \E i \in 1..Len(out_msg) : out_msg[i].kind = "frame" /\ out_msg[i].code = "0000"
  THEN [driver |-> [d EXCEPT !.status = find_status(out_msg, @),
                             !.movement_state = "READY"],
        ret |-> "True"]
  ELSE [driver |-> [d EXCEPT !.movement_state = "BUSY"], ret |-> "False"]

\* check_complete_loop: "while not a".  The first form below leaves the loop
\* after one poll.
loop_ends_after_one_poll(a) == a \in {"True", "False"}

loop_ends(a) == a = "True"

\* get_position: re.search of "Z:.., R:.., Y:.., P:.."; the four groups, in
\* the order they stand in the line, become current_pos.
find_current_pos(out_msg, current_pos) ==
  LET hits == {i \in 1..Len(out_msg) :
                 /\ out_msg[i].kind = "pos"
                 /\ [j \in 1..Len(out_msg[i].args) |-> out_msg[i].args[j][1]]
                      = <<"Z", "R", "Y", "P">>}
  IN IF hits = {} THEN current_pos
     ELSE LET a == out_msg[CHOOSE h \in hits : \A g \in hits : h <= g].args
          IN [j \in 1..4 |-> float(a[j][2])]

\* The fields of the driver that record the device (DeviceState).  In
\* __init__ status takes the value returned by get_status, which is None.
NoPos == [Z |-> 0, R |-> 0, Y |-> 0, P |-> 0]
driver_constructed ==
  [status |-> None, ERROR |-> <<>>, success_count |-> 0, movement_state |-> "READY",
   current_pos |-> <<0, 0, 0, 0>>]

\* The transport when no call is in progress, and the device at rest.
usb_idle ==
  [command |-> <<>>, reading |-> FALSE, writes |-> 0, msg |-> <<>>, failed |-> FALSE,
   response_buffer |-> <<>>]
robot_idle == [pos |-> NoPos, point |-> NoPos, loaded |-> FALSE, pending |-> <<>>]

\* The record of the last call of a primitive that returned:
\*   op, via, target: the call (via "node" for the move of the action layer);
\*   clean: every send_command of the call ended at the echo;
\*   answered: the response held the line the caller looks for;
\*   out: for get_status, what send_command returned;
\*   twice, first, same: the call before it was get_status too, the driver's
\*     state when that one returned, and whether both got the same response
\*     (twice, for check_complete: it is not the first poll of its loop);
\*   prior: for get_position, the move called just before it, if any;
\*   result: what the call returned to its caller;
\*   limp_bool, command: for limp, its argument and the text it wrote.
no_move == [via |-> "", target |-> NoPos, clean |-> FALSE]
no_call ==
  [op |-> "none", via |-> "", target |-> NoPos, clean |-> FALSE, answered |-> FALSE,
   out |-> <<>>, twice |-> FALSE, first |-> driver_constructed, same |-> FALSE,
   prior |-> no_move, result |-> None, limp_bool |-> FALSE, command |-> <<>>]

\* The resources of the resource manager that get_plate of
\* sciclops_interface.py names: its sources, its target and the gripper.
Resources == Towers \cup {"exchange", "gripper"}

\* What is on record where no call reaches the resource manager: children,
\* the plates of each resource, bottom first; called_on, the children when
\* get_plate was last called.
no_ledger ==
  [children |-> [r \in Resources |-> <<>>], called_on |-> [r \in Resources |-> <<>>]]

\* ------------------------------------------------------------------ state
VARIABLES
  labware,  \* self.labware: slot -> [type, howmany, size (, has_lid)]
  prev,     \* the inventory when the last operation was called
  last,     \* the last operation: its name, arguments and how it exited
  arm,      \* the location of the last absolute move the device was sent
  pc,       \* per caller thread: 0 before its call, else the next step
  local,    \* per caller thread: the arguments and locals of its call
  stocked,  \* history: every plate move so far found a plate at its source
  driver,   \* the fields of the driver that record the device
  usb,      \* the send_command in progress, or the last one
  robot,    \* the device: its position, its loaded point, what it has yet to say
  done,     \* history: the last call of a primitive and what came before it
  ledger    \* the resource manager: the plates on record in each resource

inventory == <<labware, prev, last, arm, pc, local, stocked, ledger>>
transport == <<driver, usb, robot, done>>
vars == <<labware, prev, last, arm, pc, local, stocked, driver, usb, robot, done, ledger>>

Threads == {1, 2}

Call(op, location, flag, trash, exc) ==
  [op |-> op, location |-> location, flag |-> flag, trash |-> trash, exc |-> exc]

RECURSIVE Total(_, _)
Total(f, S) ==
  IF S = {} THEN 0
  ELSE LET s == CHOOSE x \in S : TRUE IN f[s] + Total(f, S \ {s})

PlateSlots == Towers \cup {"exchange"}

InBounds(lab) ==
  /\ Total([s \in PlateSlots |-> IF lab[s].howmany > 0 THEN lab[s].howmany ELSE 0],
           PlateSlots) <= MaxPlates
  /\ Total([s \in PlateSlots |-> IF lab[s].howmany < 0 THEN -lab[s].howmany ELSE 0],
           PlateSlots) <= MaxDebt

\* The target of the last MOVE of cs, or before when cs holds none.
LastMove(cs, before) ==
  LET moves == {i \in 1..Len(cs) : cs[i].verb = "MOVE"}
  IN IF moves = {} THEN before
     ELSE cs[CHOOSE i \in moves : \A j \in moves : j <= i].a

Init ==
  /\ labware = load_labware
  /\ prev = load_labware
  /\ last = Call("idle", "", FALSE, FALSE, "none")
  /\ arm = "unknown"
  /\ pc = [t \in Threads |-> 0]
  /\ local = [t \in Threads |-> [location |-> "", plate_type |-> ""]]
  /\ stocked = TRUE
  /\ driver = driver_constructed
  /\ usb = usb_idle
  /\ robot = robot_idle
  /\ done = no_call
  /\ ledger = no_ledger

\* The precondition the callers of get_plate and plate_to_stack are to
\* validate (the driver does not): a plate is at the source.
SourceStocked(op, location) ==
  CASE op = "get_plate" -> labware[location].howmany >= 1
    [] op = "plate_to_stack" -> labware["exchange"].howmany >= 1
    [] OTHER -> TRUE

\* One whole call of a compound operation by a single caller, made while
\* no call is on record.
Run(op, location, flag, trash, r) ==
  /\ \A t \in Threads : pc[t] = 0
  /\ last.op = "idle"
  /\ InBounds(r.lab)
  /\ labware' = r.lab
  /\ prev' = labware
  /\ last' = Call(op, location, flag, trash, r.exc)
  /\ arm' = LastMove(r.cmds, arm)
  /\ stocked' = (stocked /\ SourceStocked(op, location))
  /\ UNCHANGED <<pc, local, ledger>>
  /\ UNCHANGED transport

\* trash is read only when the lid is to be removed.
GetPlate ==
  \E location \in Towers, with_remove_lid \in BOOLEAN, trash \in BOOLEAN :
    (trash => with_remove_lid) /\
    Run("get_plate", location, with_remove_lid, trash,
        get_plate(labware, location, with_remove_lid, trash))

RemoveLid ==
  \E trash \in BOOLEAN :
    Run("remove_lid", "", FALSE, trash, remove_lid(labware, trash))

ReplaceLid == Run("replace_lid", "", FALSE, FALSE, replace_lid(labware))

PlateToStack ==
  \E tower \in Towers, add_lid \in BOOLEAN :
    Run("plate_to_stack", tower, add_lid, FALSE, plate_to_stack(labware, tower, add_lid))

PlateToTrash ==
  \E add_lid \in BOOLEAN :
    Run("plate_to_trash", "", add_lid, FALSE, plate_to_trash(labware, add_lid))

LidnestToTrash ==
  \E lidnest \in LidNests :
    Run("lidnest_to_trash", lidnest, FALSE, FALSE, lidnest_to_trash(labware, lidnest))

\* get_plate of the action server: SciclopsNode.get_plate hands source and
\* target to get_plate of sciclops_interface.py; the target is the exchange.
InterfaceGetPlate ==
  \E source \in Towers :
    Run("interface_get_plate", source, FALSE, FALSE,
        interface_get_plate(labware, source, "exchange"))

\* The caller has taken the outcome of its call: the record of the call is
\* dropped and the driver waits, inventory and arm as they are, for the next.
Return ==
  /\ last.op # "idle"
  /\ last' = Call("idle", "", FALSE, FALSE, "none")
  /\ prev' = labware
  /\ UNCHANGED <<labware, arm, pc, local, stocked, ledger>>
  /\ UNCHANGED transport

\* The outcome of the last operation: what it wrote to the device and
\* printed is fixed by its arguments and the inventory it was called on.
LastOutcome ==
  CASE last.op = "get_plate" -> get_plate(prev, last.location, last.flag, last.trash)
    [] last.op = "remove_lid" -> remove_lid(prev, last.trash)
    [] last.op = "replace_lid" -> replace_lid(prev)
    [] last.op = "plate_to_stack" -> plate_to_stack(prev, last.location, last.flag)
    [] last.op = "plate_to_trash" -> plate_to_trash(prev, last.flag)
    [] last.op = "lidnest_to_trash" -> lidnest_to_trash(prev, last.location)
    [] last.op = "interface_get_plate" ->
         interface_get_plate(prev, last.location, "exchange")
    [] OTHER -> Outcome(prev, <<>>, <<>>, "none")

\* The commands the last operation wrote to the device, in order.
cmds == LastOutcome.cmds

\* The guard messages the last operation printed.
log == LastOutcome.log

Next ==
  \/ GetPlate
  \/ RemoveLid
  \/ ReplaceLid
  \/ PlateToStack
  \/ PlateToTrash
  \/ LidnestToTrash
  \/ InterfaceGetPlate
  \/ Return

Spec == Init /\ [][Next]_vars


\* ------------------------------------------------------- concurrent callers
\* Two callers (threads of the action server, or of any program using the
\* driver) each call get_plate(location) once on the same SCICLOPS object.
\* The driver takes no lock: a thread runs one step of its call at a time,
\* and a step of the other thread may come between any two.
Program(t) == get_plate_program(local[t].location, local[t].plate_type)

Submitted(t) == pc[t] > 0
Sending(t) == pc[t] > 1 /\ pc[t] <= Len(Program(t))
Returned(t) == pc[t] > 0 /\ pc[t] > Len(Program(t))

\* Thread t is handed its call; thread 1 is submitted first.  The first two
\* statements of get_plate read the tower's plate type.
Submit(t) ==
  \E location \in Towers :
    /\ last.op = "idle"
    /\ pc[t] = 0
    /\ \A u \in Threads : u < t => Submitted(u)
    /\ pc' = [pc EXCEPT ![t] = 1]
    /\ local' = [local EXCEPT ![t] = [location |-> location,
                                       plate_type |-> labware[location].type]]
    /\ UNCHANGED <<labware, prev, last, arm, stocked, ledger>>
    /\ UNCHANGED transport

\* Thread t runs its next step: one send_command or one inventory write.
Step(t) ==
  /\ Submitted(t) /\ ~Returned(t)
  /\ LET ins == Program(t)[pc[t]]
     IN /\ labware' = IF ins.kind = "write"
                      THEN get_plate_write(labware, local[t].location, ins.k)
                      ELSE labware
        /\ arm' = IF ins.kind = "send" THEN LastMove(<<ins.cmd>>, arm) ELSE arm
  /\ pc' = [pc EXCEPT ![t] = @ + 1]
  /\ UNCHANGED <<prev, last, local, stocked, ledger>>
  /\ UNCHANGED transport

NextConcurrent ==
  \/ \E t \in Threads : Submit(t)
  \/ \E t \in Threads : Step(t)

SpecConcurrent == Init /\ [][NextConcurrent]_vars

\* What the two calls leave when run one after the other, in submission order.
SequentialResult ==
  get_plate(get_plate(load_labware, local[1].location, FALSE, FALSE).lab,
            local[2].location, FALSE, FALSE).lab


\* ---------------------------------------------------------- filling stacks
\* The same driver, called to fetch and to stack plates only, with counts
\* let run up to a full tower.  The driver reads no count before it moves a
\* plate, so a caller can stack onto a tower any number of times.
InStack(lab) == \A s \in PlateSlots : lab[s].howmany \in -MaxStack..MaxStack

RunStack(op, location, flag, r) ==
  /\ last.op = "idle"
  /\ InStack(r.lab)
  /\ labware' = r.lab
  /\ prev' = labware
  /\ last' = Call(op, location, flag, FALSE, r.exc)
  /\ arm' = LastMove(r.cmds, arm)
  /\ stocked' = (stocked /\ SourceStocked(op, location))
  /\ UNCHANGED <<pc, local, ledger>>
  /\ UNCHANGED transport

StackGetPlate ==
  \E location \in Towers :
    RunStack("get_plate", location, FALSE, get_plate(labware, location, FALSE, FALSE))

StackPlateToStack ==
  \E tower \in Towers, add_lid \in BOOLEAN :
    RunStack("plate_to_stack", tower, add_lid, plate_to_stack(labware, tower, add_lid))

NextStack ==
  \/ StackGetPlate
  \/ StackPlateToStack
  \/ Return

SpecStack == Init /\ [][NextStack]_vars


\* ------------------------------------------------- send_command by steps
\* One send_command at a time against the device: the write of the command
\* line, then each read.  The device is the environment: it takes a command
\* line by its labels, moves to the loaded point on MOVE, and answers with
\* a status line or its coordinates and then the echo of the command, with
\* the echo alone or in two halves, or with less; a read may fail at any
\* time, and fails when the device has no more to say.

\* What the device does with a command line.
device_takes(rob, command) ==
  LET body == command[1]
      labelled(l) == float(body.args[CHOOSE j \in 1..Len(body.args) :
                                       /\ body.args[j][1] = l
                                       /\ \A k \in 1..Len(body.args) :
                                            body.args[k][1] = l => k <= j][2])
  IN CASE body.word = "LOADPOINT" ->
            [rob EXCEPT !.point = [Z |-> labelled("Z"), R |-> labelled("R"),
                                   Y |-> labelled("Y"), P |-> labelled("P")],
                        !.loaded = TRUE]
       [] body.word = "MOVE" ->
            IF rob.loaded /\ rob.point.R = labelled("R")
            THEN [rob EXCEPT !.pos = rob.point] ELSE rob
       [] body.word = "DELETEPOINT" -> [rob EXCEPT !.point = NoPos, !.loaded = FALSE]
       [] OTHER -> rob

\* What the device may say to a command line, one element for each read:
\* to STATUS and GETPOS a line and the echo, the echo alone or in two
\* halves, or nothing; to the commands of a move and to LIMP "0000 Success"
\* and the echo, the echo alone, or nothing.
ReplyScripts(rob, command) ==
  IF command \in {StatusCommand, GetposCommand}
  THEN LET data == IF command = StatusCommand THEN Frames
                   ELSE {PosLine(rob.pos), Frame("0011", "Fault")}
       IN {<<>>, <<command>>, <<<<command[1]>>, <<command[2]>>>>}
          \cup {<<d, command>> : d \in data}
  ELSE {<<>>, <<command>>, <<Frame("0000", "Success"), command>>}

\* The device may also reject a command line, whichever it is, with a fault
\* line before the echo.
FaultScripts(command) == {<<Frame("0011", "Fault"), command>>}

\* The device says "0000 Success" only while the counter is below its bound.
Countable(script, d) ==
  (\E i \in 1..Len(script) : script[i] = Frame("0000", "Success"))
    => d.success_count < MaxSuccess

\* The command lines the driver's primitives send.
CommandLines ==
  {StatusCommand, GetposCommand}
  \cup {limp(limp_bool) : limp_bool \in BOOLEAN}
  \cup UNION {{move_commands(labware_pos[l].R, labware_pos[l].Z,
                             labware_pos[l].P, labware_pos[l].Y)[i] : i \in 1..3}
              : l \in Targets}

\* send_command, line 180: the command line is written to the device.
WriteToDevice ==
  /\ ~usb.reading
  /\ \E command \in CommandLines :
       LET rob == device_takes(robot, command)
       IN \E script \in ReplyScripts(rob, command) \cup FaultScripts(command) :
            /\ Countable(script, driver)
            /\ robot' = [rob EXCEPT !.pending = script]
            /\ usb' = [command |-> command, reading |-> TRUE, writes |-> usb.writes + 1,
                       msg |-> <<>>, failed |-> FALSE,
                       response_buffer |-> <<WriteMark>> \o command]
  /\ UNCHANGED <<driver, done>>
  /\ UNCHANGED inventory

\* send_command, lines 186-201: one read, which returns what the device says
\* next or fails; when the loop ends, the success count and get_error.
ReadFromDevice ==
  /\ usb.reading
  /\ \E ok \in BOOLEAN :
       /\ ok => robot.pending # <<>>
       /\ LET msg == IF ok THEN Head(robot.pending) ELSE usb.msg
              buf == IF ok THEN usb.response_buffer \o <<ReadMark>> \o msg
                     ELSE usb.response_buffer
              ends == read_loop_ends(msg, usb.command, ~ok)
          IN /\ robot' = [robot EXCEPT !.pending = IF ok THEN Tail(@) ELSE <<>>]
             /\ usb' = [usb EXCEPT !.msg = msg, !.failed = ~ok, !.response_buffer = buf,
                                   !.reading = ~ends,
                                   !.writes = IF ends THEN 0 ELSE @]
             /\ driver' = IF ends
                          THEN [driver EXCEPT !.success_count = @ + count_success(buf),
                                              !.ERROR = get_error(buf, @)]
                          ELSE driver
  /\ UNCHANGED done
  /\ UNCHANGED inventory

NextSend ==
  \/ WriteToDevice
  \/ ReadFromDevice

\* A read returns or fails within its timeout of 5000 ms.
SpecSend == Init /\ [][NextSend]_vars /\ WF_vars(ReadFromDevice)


\* -------------------------------------------------- primitives as wholes
\* get_status, get_position and move, and the move of the action layer, each
\* call one step.  What the device says to one command is a reply: what the
\* reads return, in order, before one fails.
Replies(rob, command) ==
  UNION {{SubSeq(sc, 1, n) : n \in 0..Len(sc)} : sc \in ReplyScripts(rob, command)}

\* send_command: the response buffer, by the read loop of lines 186-192.
RECURSIVE read_loop(_, _, _, _)
read_loop(command, reply, n, response_buffer) ==
  IF n >= Len(reply)
  THEN response_buffer
  ELSE LET msg == reply[n + 1]
           buf == response_buffer \o <<ReadMark>> \o msg
       IN IF read_loop_ends(msg, command, FALSE) THEN buf
          ELSE read_loop(command, reply, n + 1, buf)

send_command(command, reply) == read_loop(command, reply, 0, <<WriteMark>> \o command)

\* A read of the send failed: the loop did not end at the echo.
send_failed(command, reply) ==
  LET buf == send_command(command, reply)
  IN SubSeq(buf, Len(buf) - Len(command) + 1, Len(buf)) # command
     \/ buf[Len(buf) - Len(command)] # ReadMark

\* The driver after send_command has returned buf: the success count and
\* get_error, then what the caller extracts from the buffer.
after_send(op, buf, d) ==
  LET d1 == [d EXCEPT !.success_count = @ + count_success(buf),
                      !.ERROR = get_error(buf, @)]
  IN CASE op \in {"get_status", "__init__"} -> [d1 EXCEPT !.status = find_status(buf, @)]
       [] op = "get_position" -> [d1 EXCEPT !.current_pos = find_current_pos(buf, @)]
       [] OTHER -> d1

\* __init__, lines 39-41: status takes the value get_status returns, None.
construct(reply) ==
  [after_send("__init__", send_command(StatusCommand, reply),
              [driver_constructed EXCEPT !.movement_state = None])
     EXCEPT !.status = None, !.movement_state = "READY"]

InitDevice ==
  /\ labware = load_labware
  /\ prev = load_labware
  /\ last = Call("idle", "", FALSE, FALSE, "none")
  /\ arm = "unknown"
  /\ pc = [t \in Threads |-> 0]
  /\ local = [t \in Threads |-> [location |-> "", plate_type |-> ""]]
  /\ stocked = TRUE
  /\ \E reply \in Replies(robot_idle, StatusCommand) : driver = construct(reply)
  /\ usb = usb_idle
  /\ robot = robot_idle
  /\ done = no_call
  /\ ledger = no_ledger

\* What every action of SciclopsNode returns once the driver's method has
\* returned.
ActionSucceeded == "ActionSucceeded"

\* get_status, called by a user of the driver (it returns None) or by the
\* status action of SciclopsNode.
GetStatusSends(via, result) ==
  \E reply \in Replies(robot, StatusCommand) :
    LET buf == send_command(StatusCommand, reply)
    IN /\ Countable(reply, driver)
       /\ driver' = after_send("get_status", buf, driver)
       /\ done' = [no_call EXCEPT !.op = "get_status", !.via = via, !.result = result,
                                  !.clean = ~send_failed(StatusCommand, reply),
                                  !.answered = find_status(buf, None) # None,
                                  !.out = buf,
                                  !.twice = (done.op = "get_status"),
                                  !.first = IF done.op = "get_status" THEN driver ELSE @,
                                  !.same = (done.op = "get_status" /\ done.out = buf)]
       /\ UNCHANGED <<usb, robot>>
       /\ UNCHANGED inventory

GetStatusCall == GetStatusSends("driver", None)

NodeStatusCall == GetStatusSends("node", ActionSucceeded)

GetPositionCall ==
  \E reply \in Replies(robot, GetposCommand) :
    LET buf == send_command(GetposCommand, reply)
    IN /\ driver' = after_send("get_position", buf, driver)
       /\ done' = [no_call EXCEPT !.op = "get_position", !.via = "driver",
                                  !.clean = ~send_failed(GetposCommand, reply),
                                  !.answered = \E i \in 1..Len(buf) : buf[i].kind = "pos",
                                  !.prior = IF done.op = "move"
                                            THEN [via |-> done.via, target |-> done.target,
                                                  clean |-> done.clean]
                                            ELSE @]
       /\ UNCHANGED <<usb, robot>>
       /\ UNCHANGED inventory

\* move: its three commands, each taken by the device and answered.
MoveSends(via, target, commands) ==
  LET rob1 == device_takes(robot, commands[1])
      rob2 == device_takes(rob1, commands[2])
      rob3 == device_takes(rob2, commands[3])
  IN \E r1 \in Replies(rob1, commands[1]), r2 \in Replies(rob2, commands[2]),
        r3 \in Replies(rob3, commands[3]) :
       LET d1 == after_send("move", send_command(commands[1], r1), driver)
           d2 == after_send("move", send_command(commands[2], r2), d1)
           d3 == after_send("move", send_command(commands[3], r3), d2)
       IN /\ Countable(r1, driver) /\ Countable(r2, d1)
          /\ Countable(r3, d2)
          /\ driver' = d3
          /\ robot' = rob3
          /\ done' = [no_call EXCEPT !.op = "move", !.via = via, !.target = target,
                                     !.result = IF via = "node" THEN ActionSucceeded
                                                ELSE None,
                                     !.clean = /\ ~send_failed(commands[1], r1)
                                               /\ ~send_failed(commands[2], r2)
                                               /\ ~send_failed(commands[3], r3)]
          /\ UNCHANGED usb
          /\ UNCHANGED inventory

MoveCall ==
  \E l \in Targets :
    MoveSends("driver", labware_pos[l],
              move_commands(labware_pos[l].R, labware_pos[l].Z,
                            labware_pos[l].P, labware_pos[l].Y))

NodeMoveCall ==
  \E l \in Targets :
    MoveSends("node", labware_pos[l], node_move_commands(labware_pos[l]))

NextDevice ==
  \/ GetStatusCall
  \/ GetPositionCall
  \/ MoveCall
  \/ NodeMoveCall

SpecDevice == InitDevice /\ [][NextDevice]_vars

\* limp of SciclopsNode: the driver's limp called with toggle, its one send
\* taken by the device and answered.
NodeLimpCall ==
  \E toggle \in BOOLEAN :
    \E reply \in Replies(robot, limp(toggle)) :
      LET command == limp(toggle)
          buf == send_command(command, reply)
      IN /\ Countable(reply, driver)
         /\ driver' = after_send("limp", buf, driver)
         /\ done' = [no_call EXCEPT !.op = "limp", !.via = "node",
                                    !.result = ActionSucceeded,
                                    !.clean = ~send_failed(command, reply),
                                    !.limp_bool = toggle, !.command = command]
         /\ UNCHANGED <<usb, robot>>
         /\ UNCHANGED inventory

\* The actions of SciclopsNode that call these primitives: status, move and
\* limp.
NextNode ==
  \/ NodeStatusCall
  \/ NodeMoveCall
  \/ NodeLimpCall

SpecNode == InitDevice /\ [][NextNode]_vars


\* ------------------------------------------------------- completion polls
\* check_complete_loop and nothing else: one poll (a whole check_complete,
\* with its send_command) a step, and the return of the loop a step.  There
\* is no count of polls: the loop has none.
CheckComplete ==
  /\ done.op = "check_complete" => ~loop_ends(done.result)
  /\ \E reply \in Replies(robot, StatusCommand) :
       LET buf == send_command(StatusCommand, reply)
           r == check_complete(buf, after_send("check_complete", buf, driver))
       IN /\ Countable(reply, driver)
          /\ driver' = r.driver
          /\ done' = [no_call EXCEPT !.op = "check_complete", !.via = "driver",
                                     !.clean = ~send_failed(StatusCommand, reply),
                                     !.answered = find_status(buf, None) # None,
                                     !.out = buf,
                                     !.twice = (done.op = "check_complete"),
                                     !.result = r.ret]
  /\ UNCHANGED <<usb, robot>>
  /\ UNCHANGED inventory

CheckCompleteLoopReturn ==
  /\ done.op = "check_complete"
  /\ loop_ends(done.result)
  /\ done' = [no_call EXCEPT !.op = "check_complete_loop", !.twice = done.twice]
  /\ UNCHANGED <<driver, usb, robot>>
  /\ UNCHANGED inventory

NextPoll ==
  \/ CheckComplete
  \/ CheckCompleteLoopReturn

\* The loop is run to its end by asyncio.run: once a poll has returned True
\* the loop returns.
SpecPoll == InitDevice /\ [][NextPoll]_vars /\ WF_vars(CheckCompleteLoopReturn)


\* ------------------------------------------------------ guard queries called
\* check_for_lid, check_for_empty_nest and check_stack are public methods
\* that read the inventory and write nothing.  Here a caller calls them on
\* an inventory the compound operations can leave behind: each lid nest
\* empty or holding one lid, of either plate type; the exchange of either
\* type; one tower holding any number of plates of its own type, or owing
\* some.
PlateTypes == {"96_well", "pcr_plate"}

LookupInventories ==
  {[load_labware EXCEPT !["lidnest1"].howmany = n1, !["lidnest1"].type = t1,
                        !["lidnest2"].howmany = n2, !["lidnest2"].type = t2,
                        !["exchange"].type = te,
                        ![tower].howmany = n] :
     n1 \in 0..1, n2 \in 0..1, t1 \in PlateTypes, t2 \in PlateTypes,
     te \in PlateTypes, tower \in Towers, n \in (-MaxDebt)..MaxStack}

InitLookup ==
  /\ labware \in LookupInventories
  /\ prev = labware
  /\ last = Call("idle", "", FALSE, FALSE, "none")
  /\ arm = "unknown"
  /\ pc = [t \in Threads |-> 0]
  /\ local = [t \in Threads |-> [location |-> "", plate_type |-> ""]]
  /\ stocked = TRUE
  /\ driver = driver_constructed
  /\ usb = usb_idle
  /\ robot = robot_idle
  /\ done = no_call
  /\ ledger = no_ledger

\* One call of a guard query: last is the call, done.result what it returned.
Lookup(op, location, result) ==
  /\ last' = Call(op, location, FALSE, FALSE, "none")
  /\ done' = [no_call EXCEPT !.op = op, !.via = "driver", !.result = result]
  /\ prev' = labware
  /\ UNCHANGED <<labware, arm, pc, local, stocked, driver, usb, robot, ledger>>

CheckForLid == Lookup("check_for_lid", "", check_for_lid(labware))

CheckForEmptyNest == Lookup("check_for_empty_nest", "", check_for_empty_nest(labware))

CheckStack ==
  \E tower \in Towers :
    Lookup("check_stack", tower, IF check_stack(labware, tower) THEN "True" ELSE "False")

NextLookup ==
  \/ CheckForLid
  \/ CheckForEmptyNest
  \/ CheckStack

SpecLookup == InitLookup /\ [][NextLookup]_vars


\* ------------------------------------------------ get_plate and the ledger
\* get_plate(source, target) of sciclops_interface.py, one call at a time,
\* one statement a step, with the resource manager it reports to.  A plate
\* is named by the tower it stood in when the node started and its place
\* there.  The towers start with up to MaxPlates plates in all, the
\* exchange with none or one, the gripper with none.
StackOf(tower, n) == [i \in 1..n |-> <<tower, i>>]
NoPlate == <<"", 0>>

Ledgers ==
  {[r \in Resources |->
      IF r \in Towers THEN StackOf(r, counts[r])
      ELSE IF r = "exchange" THEN StackOf("exchange", counts[r])
      ELSE <<>>] :
     counts \in {c \in [Towers \cup {"exchange"} -> 0..MaxPlates] :
                   /\ c["exchange"] <= 1
                   /\ Total(c, Towers) <= MaxPlates}}

InitLedger ==
  /\ labware = load_labware
  /\ prev = load_labware
  /\ last = Call("idle", "", FALSE, FALSE, "none")
  /\ arm = "unknown"
  /\ pc = [t \in Threads |-> 0]
  /\ local = [t \in Threads |-> [location |-> "", plate_type |-> "", plate |-> NoPlate]]
  /\ stocked = TRUE
  /\ driver = driver_constructed
  /\ usb = usb_idle
  /\ robot = robot_idle
  /\ done = no_call
  /\ \E children \in Ledgers : ledger = [children |-> children, called_on |-> children]

\* The statements of the call in progress.
LedgerProgram == interface_get_plate_program(local[1].location, "exchange")

\* resource_client.pop(resource): the plate on top, and the children left.
resource_pop(children, resource) ==
  [plate |-> children[resource][Len(children[resource])],
   children |-> [children EXCEPT ![resource] = SubSeq(@, 1, Len(@) - 1)]]

\* resource_client.push(resource, plate).
resource_push(children, resource, plate) ==
  [children EXCEPT ![resource] = Append(@, plate)]

\* SciclopsNode.get_plate(source, target) is called; the target is the
\* exchange.
LedgerCall ==
  \E source \in Towers :
    /\ pc[1] = 0
    /\ pc' = [pc EXCEPT ![1] = 1]
    /\ local' = [local EXCEPT ![1] = [location |-> source, plate_type |-> "96_well",
                                       plate |-> NoPlate]]
    /\ last' = Call("interface_get_plate", source, FALSE, FALSE, "none")
    /\ ledger' = [ledger EXCEPT !.called_on = ledger.children]
    /\ UNCHANGED <<labware, prev, arm, stocked>>
    /\ UNCHANGED transport

\* The call leaves get_plate by an exception of the resource client.
LedgerRaise ==
  /\ pc' = [pc EXCEPT ![1] = Len(LedgerProgram) + 1]
  /\ last' = [last EXCEPT !.exc = "ResourceError"]
  /\ UNCHANGED <<local, ledger, arm>>

\* One statement of get_plate: a send_command, a pop (which raises when the
\* resource holds nothing) or a push (which the resource manager may refuse
\* when the resource holds a plate already).
LedgerStep ==
  /\ pc[1] > 0 /\ pc[1] <= Len(LedgerProgram)
  /\ LET ins == LedgerProgram[pc[1]]
         resource == ins.cmd.a
     IN CASE ins.kind = "pop" ->
               IF ledger.children[resource] = <<>>
               THEN LedgerRaise
               ELSE LET r == resource_pop(ledger.children, resource)
                    IN /\ local' = [local EXCEPT ![1].plate = r.plate]
                       /\ ledger' = [ledger EXCEPT !.children = r.children]
                       /\ pc' = [pc EXCEPT ![1] = @ + 1]
                       /\ UNCHANGED <<last, arm>>
          [] ins.kind = "push" ->
               \/ /\ ledger.children[resource] # <<>>
                  /\ LedgerRaise
               \/ /\ ledger' = [ledger EXCEPT !.children =
                                  resource_push(ledger.children, resource, local[1].plate)]
                  /\ pc' = [pc EXCEPT ![1] = @ + 1]
                  /\ UNCHANGED <<last, local, arm>>
          [] OTHER ->
               /\ arm' = LastMove(<<ins.cmd>>, arm)
               /\ pc' = [pc EXCEPT ![1] = @ + 1]
               /\ UNCHANGED <<last, local, ledger>>
  /\ UNCHANGED <<labware, prev, stocked>>
  /\ UNCHANGED transport

\* get_plate has returned, or its exception has left it: the node is ready
\* for the next call.
LedgerReturn ==
  /\ pc[1] > Len(LedgerProgram)
  /\ pc' = [pc EXCEPT ![1] = 0]
  /\ last' = Call("idle", "", FALSE, FALSE, "none")
  /\ UNCHANGED <<labware, prev, arm, local, stocked, ledger>>
  /\ UNCHANGED transport

NextLedger ==
  \/ LedgerCall
  \/ LedgerStep
  \/ LedgerReturn

SpecLedger == InitLedger /\ [][NextLedger]_vars


\* ----------------------------------------------------------------- claims
\* The sum of the occupancy counts of all tracked slots.
Occupancy(lab) == Total([s \in Slots |-> lab[s].howmany], Slots)

\* The verbs that move the arm or the gripper.
MotionVerbs == {"OPEN", "CLOSE", "JOG", "MOVE"}

CompoundOps ==
  {"get_plate", "remove_lid", "replace_lid", "plate_to_stack", "plate_to_trash",
   "lidnest_to_trash"}

C2_GetPlateMovesOnePlate ==
  (/\ last.op = "get_plate" /\ ~last.flag /\ last.exc = "none"
   /\ prev[last.location].howmany >= 1)
    => /\ labware[last.location].howmany = prev[last.location].howmany - 1
       /\ labware["exchange"].howmany = prev["exchange"].howmany + 1
       /\ labware["exchange"].type = prev[last.location].type
       /\ labware["exchange"].has_lid = prev[last.location].has_lid

\* C2 witness: such a get_plate has completed onto an exchange that was
\* recorded with another plate type and without a lid.
C2_Witness ==
  /\ last.op = "get_plate" /\ ~last.flag /\ last.exc = "none"
  /\ prev[last.location].howmany >= 1
  /\ prev["exchange"].type # prev[last.location].type
  /\ ~prev["exchange"].has_lid

\* C3: plate_to_trash(add_lid = false) with a plate on the exchange runs to
\* completion, lowers the exchange's count by one and raises no count
\* (stated of calls made after stocked moves only, as are C4-C6, C9 and C10).
C3_PlateToTrashLowersExchange ==
  (/\ stocked
   /\ last.op = "plate_to_trash" /\ ~last.flag
   /\ prev["exchange"].howmany >= 1)
    => /\ last.exc = "none"
       /\ labware["exchange"].howmany = prev["exchange"].howmany - 1
       /\ \A s \in Slots : labware[s].howmany <= prev[s].howmany

\* C4: plate_to_stack(tower, add_lid = true) with a lidless plate on the
\* exchange and no lid of its type in a nest reports InventoryViolation and
\* leaves the exchange's and the tower's counts unchanged.
C4_PlateToStackNoLidReported ==
  (/\ stocked
   /\ last.op = "plate_to_stack" /\ last.flag
   /\ prev["exchange"].howmany >= 1
   /\ ~prev["exchange"].has_lid
   /\ check_for_lid(prev) = None)
    => /\ last.exc = "InventoryViolation"
       /\ labware["exchange"].howmany = prev["exchange"].howmany
       /\ labware[last.location].howmany = prev[last.location].howmany

\* C5: remove_lid(trash = false) with a lid on the exchange plate and both
\* nests occupied returns InventoryViolation and leaves the exchange's lid
\* flag unchanged.
C5_RemoveLidNoNestReported ==
  (/\ stocked
   /\ last.op = "remove_lid" /\ ~last.trash
   /\ prev["exchange"].has_lid
   /\ \A n \in LidNests : prev[n].howmany >= 1)
    => /\ last.exc = "InventoryViolation"
       /\ labware["exchange"].has_lid = prev["exchange"].has_lid

\* C6: replace_lid with the exchange's lid flag already true sends no
\* gripper, jog or move command and returns InventoryViolation.
C6_ReplaceLidAlreadyLiddedNoMotion ==
  (/\ stocked
   /\ last.op = "replace_lid"
   /\ prev["exchange"].has_lid)
    => /\ \A i \in 1..Len(cmds) : cmds[i].verb \notin MotionVerbs
       /\ last.exc = "InventoryViolation"

\* C7: of two concurrent get_plate calls the second sends no command until
\* the first has returned, and when both have returned the inventory is the
\* one left by running the first and then the second.
C7_SecondWaitsAndResultSequential ==
  /\ pc[2] > 1 => Returned(1)
  /\ (Returned(1) /\ Returned(2)) => labware = SequentialResult

\* C8: at most one compound operation is between its first and its last
\* primitive at any time.
C8_OneOperationInFlight ==
  \A t, u \in Threads : (Sending(t) /\ Sending(u)) => t = u

\* C9: every compound operation that returns leaves the arm at neutral: the
\* last absolute move sent to the device is the move to neutral.
C9_ReturnsAtNeutral ==
  (stocked /\ last.op \in CompoundOps /\ last.exc = "none") => arm = "neutral"

\* C10: remove_lid(trash = false) with a lid on the exchange plate and no
\* empty nest closes the gripper on no lid and lifts nothing: it sends no
\* CLOSE and no upward jog.
C10_RemoveLidNoNestNoGrip ==
  (/\ stocked
   /\ last.op = "remove_lid" /\ ~last.trash
   /\ prev["exchange"].has_lid
   /\ check_for_empty_nest(prev) = None)
    => \A i \in 1..Len(cmds) :
         /\ cmds[i].verb # "CLOSE"
         /\ ~(cmds[i].verb = "JOG" /\ cmds[i].n > 0)

\* The slots that carry a lid flag (the lid nests carry none).
LidSlots == {s \in Slots : "has_lid" \in DOMAIN load_labware[s]}

\* The tagged results an operation may return in place of success.
ErrorKinds ==
  {"TransportError", "ProtocolParseError", "DeviceFault", "InventoryViolation",
   "ConcurrencyViolation"}

\* The plates on record over the towers and the exchange.
PlatesOnRecord(lab) == Total([s \in PlateSlots |-> lab[s].howmany], PlateSlots)

\* C11: replace_lid with the exchange's lid flag false and no lid of the
\* exchange's plate type in a nest reports that no lid is available
\* (InventoryViolation), sends no gripper, jog or move command, and leaves
\* every slot of the inventory as it was.
C11_ReplaceLidNoLidNoMotion ==
  (/\ stocked
   /\ last.op = "replace_lid"
   /\ ~prev["exchange"].has_lid
   /\ check_for_lid(prev) = None)
    => /\ last.exc = "InventoryViolation"
       /\ \A i \in 1..Len(cmds) : cmds[i].verb \notin MotionVerbs
       /\ labware = prev

\* C12: no public operation lets an exception out: every call returns
\* success or one of the tagged error results.
C12_NoExceptionEscapes ==
  (stocked /\ last.op \in CompoundOps) => last.exc \in {"none"} \cup ErrorKinds

\* C13: in every state reached by any sequence of operations, the count of
\* every slot is at least 0.
C13_CountsNonNegative ==
  \A s \in Slots : labware[s].howmany >= 0

\* C14: in every reachable state, the initial one included, a slot whose
\* count is 0 has its lid flag false.
C14_EmptySlotHasNoLid ==
  \A s \in LidSlots : labware[s].howmany = 0 => ~labware[s].has_lid

\* C15: in every state reached by any sequence of operations, the
\* exchange's count is 0 or 1.
C15_ExchangeHoldsAtMostOne ==
  labware["exchange"].howmany \in {0, 1}

\* C16: at every exit of get_plate with lid removal from a stocked tower,
\* the exit by an exception of the nested remove_lid included, the plate
\* released on the exchange is on record once: the tower's count is lowered
\* by one, the exchange's raised by one, and the plates on record are as
\* many as before the call.
C16_PlateOnRecordOnce ==
  (/\ stocked
   /\ last.op = "get_plate" /\ last.flag
   /\ prev[last.location].howmany >= 1)
    => /\ labware[last.location].howmany = prev[last.location].howmany - 1
       /\ labware["exchange"].howmany = prev["exchange"].howmany + 1
       /\ PlatesOnRecord(labware) = PlatesOnRecord(prev)

\* C17: plate_to_stack(tower, add_lid) with a plate on the exchange and
\* check_stack(tower) false refuses with a capacity-exhausted result
\* (InventoryViolation) and does not raise the tower's count.
C17_PlateToStackRefusesFullTower ==
  (/\ last.op = "plate_to_stack"
   /\ prev["exchange"].howmany >= 1
   /\ ~check_stack(prev, last.location))
    => /\ last.exc = "InventoryViolation"
       /\ labware[last.location].howmany = prev[last.location].howmany

\* DeviceState without the success counter.
DeviceState(d) ==
  [status |-> d.status, ERROR |-> d.ERROR, movement_state |-> d.movement_state,
   current_pos |-> d.current_pos]

\* C18 as stated: after get_status is called twice with no other command
\* between, the driver's status, error text, movement state and position
\* are what they were after the first call.
C18_GetStatusTwiceSameState ==
  (done.op = "get_status" /\ done.twice)
    => DeviceState(driver) = DeviceState(done.first)

\* C18: after get_status is called twice with no other command between, and
\* the device has given the same response to both, the driver's status,
\* error text, movement state and position are what they were after the
\* first call.
C18_GetStatusTwiceSameResponse ==
  (done.op = "get_status" /\ done.twice /\ done.same)
    => DeviceState(driver) = DeviceState(done.first)

\* C18 witness: two get_status calls in a row were both answered
\* "0000 Success" and the echo; the second raised the success count only.
C18_Witness ==
  /\ done.op = "get_status" /\ done.twice /\ done.same
  /\ done.clean /\ done.answered
  /\ driver.success_count > done.first.success_count

\* C19: move to a position (Z, R, Y, P), by the driver's move(R, Z, P, Y) or
\* by the move of the action layer, followed by get_position, every
\* send_command ending at the echo and the device answering GETPOS with its
\* coordinates, leaves current_pos equal to the position, axis by axis.
C19_MoveThenGetPosition ==
  (/\ done.op = "get_position" /\ done.clean /\ done.answered
   /\ done.prior.via # "" /\ done.prior.clean)
    => driver.current_pos = <<done.prior.target.Z, done.prior.target.R,
                              done.prior.target.Y, done.prior.target.P>>

\* What send_command has read so far, as one text.
received ==
  SelectSeq(SubSeq(usb.response_buffer, Len(usb.command) + 2, Len(usb.response_buffer)),
            LAMBDA p : p # ReadMark)

\* C20 as stated: send_command goes on reading exactly until the text read
\* so far equals the command or a read fails.
C20_SendStopsWhenTextEqualsCommand ==
  usb.command # <<>>
    => (usb.reading <=> ~(received = usb.command \/ usb.failed))

\* C20: send_command writes the command once and goes on reading exactly
\* until what the latest read returned equals the command or a read fails;
\* and it returns, given that the device sends the echo in one read or a
\* read fails.
C20_SendStopsAtEchoReadOrFailure ==
  /\ [](usb.command # <<>>
          => (usb.reading <=> ~(usb.msg = usb.command \/ usb.failed)))
  /\ [](usb.reading => usb.writes = 1)
  /\ (usb.reading ~> ~usb.reading)

\* C20 witness: send_command has returned at the echo, read after a status
\* line, so that the text read is more than the command.
C20_Witness ==
  /\ usb.command # <<>> /\ ~usb.reading /\ ~usb.failed
  /\ usb.msg = usb.command
  /\ received # usb.command

\* The last status line of a response buffer, if it holds one.
TrailingStatusLine(response_buffer) ==
  LET hits == {i \in 1..Len(response_buffer) : response_buffer[i].kind = "frame"}
  IN IF hits = {} THEN {}
     ELSE {response_buffer[CHOOSE h \in hits : \A g \in hits : g <= h]}

\* C21: when send_command has returned and the last status line of its
\* response carries a code other than 0000, the driver's error text is the
\* text of that line: "ERROR: " and what follows the code.
C21_FaultRecordedAsError ==
  (usb.command # <<>> /\ ~usb.reading)
    => \A line \in TrailingStatusLine(usb.response_buffer) :
         line.code # "0000" => driver.ERROR = <<"ERROR: ", " ", line.word>>

\* The occurrences of "0000 Success" in a text, counted from its head.
RECURSIVE Occurrences(_)
Occurrences(text) ==
  IF text = <<>> THEN 0
  ELSE (IF Head(text) = Piece("frame", "0000", "Success", <<>>) THEN 1 ELSE 0)
       + Occurrences(Tail(text))

\* C22: the step that ends a send_command raises success_count by the
\* number of "0000 Success" in that call's response buffer, no other step
\* changes it, and it never goes down.
C22_SuccessCountedPerSend ==
  [][/\ driver'.success_count >= driver.success_count
     /\ (usb.reading /\ ~usb'.reading)
          => driver'.success_count
               = driver.success_count + Occurrences(usb'.response_buffer)
     /\ ~(usb.reading /\ ~usb'.reading)
          => driver'.success_count = driver.success_count]_vars

\* C22 witness: a second send_command has returned with "0000 Success" in
\* its response, read before the echo, and the counter stands at two.
C22_Witness ==
  /\ usb.command # <<>> /\ ~usb.reading /\ ~usb.failed
  /\ Occurrences(usb.response_buffer) = 1
  /\ driver.success_count = 2

\* C23: a get_status or get_position whose send_command met a failed read,
\* or whose response holds no line of the kind it looks for, returns all the
\* same: get_status has the response buffer as far as it was read, and the
\* status, or the position, stays what it was before the call.
C23_UnansweredQueryKeepsField ==
  [][/\ (/\ done'.op = "get_status"
         /\ ~\E i \in 1..Len(done'.out) :
               done'.out[i].kind = "frame" /\ done'.out[i].code = "0000")
          => /\ driver'.status = driver.status
             /\ SubSeq(done'.out, 1, 1 + Len(StatusCommand)) = <<WriteMark>> \o StatusCommand
     /\ (done'.op = "get_position" /\ ~done'.answered)
          => driver'.current_pos = driver.current_pos]_vars

\* C23 witness: get_status has returned after a failed read, with no status
\* line in its response, and the status stored by an earlier call is kept.
C23_Witness ==
  /\ done.op = "get_status" /\ ~done.clean /\ ~done.answered
  /\ driver.status # None

\* C24: one check_complete writes one command, STATUS; when the response
\* holds a status line with code 0000 it leaves movement_state READY and
\* returns True, otherwise it leaves movement_state BUSY and returns False.
C24_CheckCompleteReportsReady ==
  done.op = "check_complete"
    => /\ {i \in 1..Len(done.out) : done.out[i] = WriteMark} = {1}
       /\ SubSeq(done.out, 2, 1 + Len(StatusCommand)) = StatusCommand
       /\ IF \E i \in 1..Len(done.out) :
               done.out[i].kind = "frame" /\ done.out[i].code = "0000"
          THEN driver.movement_state = "READY" /\ done.result = "True"
          ELSE driver.movement_state = "BUSY" /\ done.result = "False"

\* C24 witness: a poll answered with a fault line and the echo has returned
\* False, after an earlier loop had left the movement state READY.
C24_Witness ==
  /\ done.op = "check_complete" /\ done.clean /\ ~done.twice
  /\ \E i \in 1..Len(done.out) : done.out[i].kind = "frame" /\ done.out[i].code = "0011"
  /\ done.result = "False"
  /\ driver.status # None

\* C25: check_complete_loop returns only from a poll that found a status
\* line with code 0000, so movement_state is READY when it has returned;
\* after a poll that found none the next step is another poll, however many
\* came before; and once a poll is answered with such a line the loop
\* returns.
C25_LoopReturnsWhenAnswered ==
  /\ [](done.op = "check_complete_loop" => driver.movement_state = "READY")
  /\ [][done'.op = "check_complete_loop"
          => (done.op = "check_complete" /\ done.answered)]_vars
  /\ [][(done.op = "check_complete" /\ ~done.answered)
          => done'.op = "check_complete"]_vars
  /\ ((done.op = "check_complete" /\ done.answered)
        ~> done.op = "check_complete_loop")

\* C25 witness: the loop has returned after more than one poll.
C25_Witness ==
  /\ done.op = "check_complete_loop" /\ done.twice
  /\ driver.movement_state = "READY"

\* cs sends no jog and no gripper command between an absolute move and the
\* next completion poll.
PollsAfterMoves(cs) ==
  \A i, j \in 1..Len(cs) :
    (i < j /\ cs[i].verb = "MOVE" /\ cs[j].verb \in {"JOG", "OPEN", "CLOSE"})
      => \E k \in (i + 1)..(j - 1) : cs[k].verb = "STATUS"

\* C26: in every compound operation, once an absolute move has been sent,
\* no jog and no gripper command is sent before a completion poll.
C26_PollBetweenMoveAndMotion ==
  (stocked /\ last.op \in CompoundOps) => PollsAfterMoves(cmds)

\* The first place after from where cs has a command that Hit picks, or
\* Len(cs) + 1 when there is none.
FirstAfter(cs, from, Hit(_)) ==
  LET hits == {i \in (from + 1)..Len(cs) : Hit(i)}
  IN IF hits = {} THEN Len(cs) + 1 ELSE CHOOSE i \in hits : \A j \in hits : i <= j

\* cs holds, in this order: a move to neutral, a move above source, a CLOSE
\* straight after the jog down by the grab height of plate_type, a jog
\* upwards, a move above target, an OPEN and a move to neutral; and no move
\* above source comes before the first move to neutral.
GetPlateOrder(cs, source, target, plate_type) ==
  LET i1 == FirstAfter(cs, 0, LAMBDA i : cs[i] = Cmd("MOVE", "neutral", 0))
      i2 == FirstAfter(cs, i1, LAMBDA i : cs[i] = Cmd("MOVE", source, 0))
      i3 == FirstAfter(cs, i2, LAMBDA i :
              /\ cs[i].verb = "CLOSE"
              /\ cs[i - 1] = Cmd("JOG", "Z", plate_info[plate_type].grab_tower))
      i4 == FirstAfter(cs, i3, LAMBDA i :
              cs[i].verb = "JOG" /\ cs[i].a = "Z" /\ cs[i].n > 0)
      i5 == FirstAfter(cs, i4, LAMBDA i : cs[i] = Cmd("MOVE", target, 0))
      i6 == FirstAfter(cs, i5, LAMBDA i : cs[i].verb = "OPEN")
      i7 == FirstAfter(cs, i6, LAMBDA i : cs[i] = Cmd("MOVE", "neutral", 0))
  IN /\ i7 <= Len(cs)
     /\ i1 < FirstAfter(cs, 0, LAMBDA i : cs[i] = Cmd("MOVE", source, 0))

\* C27: a get_plate that returns, the driver's from a tower to the exchange
\* or the action server's get_plate(source, target), has sent a move to
\* neutral, then a move above the source, a CLOSE at the grab height of the
\* source's plate type, a lift, a move above the target, an OPEN and a last
\* move to neutral, with the first move to neutral before the first move
\* above the source.
C27_GetPlateStepsInOrder ==
  (/\ stocked
   /\ last.op \in {"get_plate", "interface_get_plate"}
   /\ last.exc = "none")
    => GetPlateOrder(cmds, last.location, "exchange", prev[last.location].type)

\* C28: an action of SciclopsNode during which the device answered with a
\* status line whose code is not 0000 does not return success.
C28_RejectedCommandNotSucceeded ==
  (/\ done.via = "node"
   /\ \E i \in 1..Len(done.out) :
        done.out[i].kind = "frame" /\ done.out[i].code # "0000")
    => done.result # ActionSucceeded

\* C29: a remove_lid that finds a lid on the exchange plate and returns
\* leaves the exchange's lid flag false; with trash false it raises by one
\* the count of one lid nest, which was empty, gives that nest the
\* exchange's plate type and changes no other count; with trash true it
\* changes no count.
C29_RemoveLidStoresLid ==
  (last.op = "remove_lid" /\ last.exc = "none" /\ prev["exchange"].has_lid)
    => /\ ~labware["exchange"].has_lid
       /\ last.trash => \A s \in Slots : labware[s].howmany = prev[s].howmany
       /\ ~last.trash
            => \E n \in LidNests :
                 /\ prev[n].howmany = 0
                 /\ labware[n].howmany = 1
                 /\ labware[n].type = prev["exchange"].type
                 /\ \A s \in Slots \ {n} : labware[s].howmany = prev[s].howmany

\* C29 witness: remove_lid has put a lid into lidnest2, lidnest1 being
\* occupied, and the nest was recorded with another plate type before.
C29_Witness ==
  /\ stocked
  /\ last.op = "remove_lid" /\ last.exc = "none" /\ ~last.trash
  /\ prev["exchange"].has_lid
  /\ prev["lidnest1"].howmany >= 1
  /\ prev["lidnest2"].type # prev["exchange"].type

\* C30: remove_lid called with the exchange's lid flag false leaves every
\* field of the inventory as it was and sends no move, jog or gripper
\* command.
C30_RemoveLidWithoutLidIsNoOp ==
  (stocked /\ last.op = "remove_lid" /\ ~prev["exchange"].has_lid)
    => /\ labware = prev
       /\ \A i \in 1..Len(cmds) : cmds[i].verb \notin MotionVerbs


\* A lid nest that holds at least one lid of the exchange's plate type.
MatchingNest(lab, n) ==
  lab[n].howmany >= 1 /\ lab[n].type = lab["exchange"].type

\* C31: a replace_lid called with the exchange's lid flag false while a lid
\* nest holds a lid of the exchange's type returns, lowers by one the count
\* of lidnest1 when lidnest1 is such a nest and of lidnest2 otherwise, sets
\* the exchange's lid flag and changes no other count.
C31_ReplaceLidTakesMatchingLid ==
  (/\ last.op = "replace_lid"
   /\ ~prev["exchange"].has_lid
   /\ \E n \in LidNests : MatchingNest(prev, n))
    => LET nest == IF MatchingNest(prev, "lidnest1") THEN "lidnest1" ELSE "lidnest2"
       IN /\ last.exc = "none"
          /\ labware[nest].howmany = prev[nest].howmany - 1
          /\ labware["exchange"].has_lid
          /\ \A s \in Slots \ {nest} : labware[s].howmany = prev[s].howmany

\* C31 witness: replace_lid has taken the lid of lidnest2, lidnest1 holding
\* a lid of another plate type.
C31_Witness ==
  /\ last.op = "replace_lid"
  /\ ~prev["exchange"].has_lid
  /\ prev["lidnest1"].howmany >= 1
  /\ ~MatchingNest(prev, "lidnest1")
  /\ MatchingNest(prev, "lidnest2")
  /\ labware["lidnest2"].howmany = prev["lidnest2"].howmany - 1

\* C32: lidnest_to_trash of a nest whose count is at least 1 lowers that
\* count by one and writes nothing else; of a nest whose count is 0 it
\* leaves the inventory as it was; it raises no count.
C32_LidnestToTrashLowersByOne ==
  last.op = "lidnest_to_trash"
    => LET nest == last.location
       IN /\ prev[nest].howmany >= 1
               => labware = [prev EXCEPT ![nest].howmany = prev[nest].howmany - 1]
          /\ prev[nest].howmany = 0 => labware = prev
          /\ \A s \in Slots : labware[s].howmany <= prev[s].howmany

\* C32 witness: lidnest_to_trash has discarded the lid of lidnest2.
C32_Witness ==
  /\ last.op = "lidnest_to_trash" /\ last.location = "lidnest2"
  /\ prev["lidnest2"].howmany >= 1
  /\ labware["lidnest2"].howmany = prev["lidnest2"].howmany - 1

\* C33: check_for_lid returns lidnest1 when lidnest1 holds at least one lid
\* of the type asked for (the code has no parameter: the type is the one on
\* record for the exchange), otherwise lidnest2 when lidnest2 does,
\* otherwise None; a nest it returns is neither empty nor of another type.
C33_CheckForLidFirstMatchingNest ==
  last.op = "check_for_lid"
    => /\ MatchingNest(labware, "lidnest1") => done.result = "lidnest1"
       /\ (~MatchingNest(labware, "lidnest1") /\ MatchingNest(labware, "lidnest2"))
            => done.result = "lidnest2"
       /\ (\A n \in LidNests : ~MatchingNest(labware, n)) => done.result = None
       /\ done.result \in LidNests
            => /\ labware[done.result].howmany >= 1
               /\ labware[done.result].type = labware["exchange"].type

\* C33 witness: check_for_lid has passed over a lid of another type in
\* lidnest1 and returned lidnest2.
C33_Witness ==
  /\ last.op = "check_for_lid"
  /\ labware["lidnest1"].howmany >= 1
  /\ labware["lidnest1"].type # labware["exchange"].type
  /\ done.result = "lidnest2"

\* C34: check_for_empty_nest returns lidnest1 when its count is 0,
\* otherwise lidnest2 when its count is 0, otherwise None; a nest it
\* returns holds no lid.
C34_CheckForEmptyNestFirstEmpty ==
  last.op = "check_for_empty_nest"
    => /\ labware["lidnest1"].howmany = 0 => done.result = "lidnest1"
       /\ (labware["lidnest1"].howmany # 0 /\ labware["lidnest2"].howmany = 0)
            => done.result = "lidnest2"
       /\ (\A n \in LidNests : labware[n].howmany # 0) => done.result = None
       /\ done.result \in LidNests => labware[done.result].howmany = 0

\* C34 witness: check_for_empty_nest has found both nests empty and
\* returned the first.
C34_Witness ==
  /\ last.op = "check_for_empty_nest"
  /\ \A n \in LidNests : labware[n].howmany = 0
  /\ done.result = "lidnest1"

\* C35: check_stack of a tower returns True exactly when the tower's count
\* times the height of its plate type, added to the level of the tower's
\* bottom (-421.8625), is below the level of a full stack (-50); when it
\* returns False for a count it is False for every larger count of that type.
C35_CheckStackBelowFullLevel ==
  last.op = "check_stack"
    => LET tower == last.location
           n == labware[tower].howmany
           top == n * plate_height[labware[tower].type] - 4218625
       IN /\ (done.result = "True") <=> (top < -500000)
          /\ (done.result = "False") <=> (top >= -500000)
          /\ done.result = "False"
               => \A m \in n..(MaxStack + 1) :
                    ~check_stack([labware EXCEPT ![tower].howmany = m], tower)

\* C35 witness: check_stack has returned False for a tower of pcr_plate
\* holding more than 24 plates.
C35_Witness ==
  /\ last.op = "check_stack"
  /\ labware[last.location].type = "pcr_plate"
  /\ labware[last.location].howmany = MaxStack
  /\ done.result = "False"

\* C36: the text of every command written to the device ends with "\r\n".
C36_CommandsEndWithCRLF ==
  usb.command # <<>> => usb.command[Len(usb.command)] = CRLF

\* C37: limp called with True writes LIMP TRUE and called with False writes
\* LIMP FALSE.
C37_LimpSendsItsArgument ==
  done.op = "limp"
    => done.command[1].word = (IF done.limp_bool THEN "LIMP TRUE" ELSE "LIMP FALSE")

\* The status lines of a response.
StatusLines(response_buffer) ==
  {i \in 1..Len(response_buffer) : response_buffer[i].kind = "frame"}

\* C38: when a send_command ends whose response holds no status line, or
\* status lines of code 0000 only, the driver's ERROR is what it was before
\* the send (so it is never taken from the text of the command written).
C38_SuccessOrSilenceKeepsError ==
  [][(/\ usb.reading /\ ~usb'.reading
      /\ \A i \in StatusLines(usb'.response_buffer) :
           usb'.response_buffer[i].code = "0000")
       => driver'.ERROR = driver.ERROR]_vars

\* C39: whatever operations have been called one after the other, each lid
\* nest holds no lid or one; an operation that has raised the count of a
\* nest found it at 0.
C39_LidNestHoldsAtMostOne ==
  \A n \in LidNests :
    /\ labware[n].howmany \in {0, 1}
    /\ labware[n].howmany > prev[n].howmany => prev[n].howmany = 0

\* C39 witness: remove_lid has put a lid into lidnest2 while lidnest1 holds
\* one: both nests are occupied.
C39_Witness ==
  /\ last.op = "remove_lid"
  /\ labware["lidnest1"].howmany = 1
  /\ prev["lidnest2"].howmany = 0
  /\ labware["lidnest2"].howmany = 1

\* What the gripper was last told, OPEN or CLOSE, by the statements of the
\* call in progress that have run.
LastGrip ==
  LET sent == sent_by(SubSeq(LedgerProgram, 1, pc[1] - 1))
      grips == {i \in 1..Len(sent) : sent[i].verb \in {"OPEN", "CLOSE"}}
  IN IF grips = {} THEN "none"
     ELSE sent[CHOOSE i \in grips : \A j \in grips : j <= i].verb

\* The plates on record over the source, the gripper and the target.
PlatesOver(children, source) ==
  Len(children[source]) + Len(children["gripper"]) + Len(children["exchange"])

\* C40: in get_plate(source, target) of sciclops_interface.py the plate on
\* top of the source is taken off the source's record and put on the
\* gripper's only when the gripper was last told to close, above the source;
\* it is taken off the gripper's record and put on the target's only when
\* the gripper was last told to open, above the target; and when get_plate
\* returns the gripper has no plate on record, the source has lost its top
\* plate, that plate is on top of the target, and the plates on record over
\* the three are as many as when get_plate was called.
C40_LedgerFollowsGripper ==
  [][pc[1] > 0 =>
     LET source == local[1].location
         was == ledger.children
         is == ledger'.children
         top == ledger.called_on[source][Len(ledger.called_on[source])]
     IN /\ (Len(is[source]) < Len(was[source]) \/ Len(is["gripper"]) > Len(was["gripper"]))
             => LastGrip = "CLOSE" /\ arm = source
        /\ Len(is["gripper"]) > Len(was["gripper"]) => is["gripper"] = <<top>>
        /\ (Len(is["gripper"]) < Len(was["gripper"]) \/ Len(is["exchange"]) > Len(was["exchange"]))
             => LastGrip = "OPEN" /\ arm = "exchange"
        /\ Len(is["exchange"]) > Len(was["exchange"])
             => is["exchange"] = Append(ledger.called_on["exchange"], top)
        /\ (pc[1] <= Len(LedgerProgram) /\ pc'[1] > Len(LedgerProgram) /\ last'.exc = "none")
             => /\ is["gripper"] = <<>>
                /\ Append(is[source], top) = ledger.called_on[source]
                /\ is["exchange"] = Append(ledger.called_on["exchange"], top)
                /\ PlatesOver(is, source) = PlatesOver(ledger.called_on, source)]_vars

\* C40 witness: get_plate has returned and the plate that was on top of the
\* source is on record on the target, the gripper holding none.
C40_Witness ==
  /\ last.op = "interface_get_plate" /\ last.exc = "none"
  /\ pc[1] > Len(LedgerProgram)
  /\ ledger.called_on[last.location] # <<>>
  /\ ledger.children["exchange"] # <<>>
  /\ ledger.children["exchange"][Len(ledger.children["exchange"])]
       = ledger.called_on[last.location][Len(ledger.called_on[last.location])]
  /\ ledger.children["gripper"] = <<>>

====
